---------------------------- MODULE Spec2Model ----------------------------
(***************************************************************************)
(* Model of the Dungeo_ai backend adapter and session layer:               *)
(*   src/src/dungeona_ai/core/game_core.py  (GameCore, GameState, CONFIG)  *)
(*   src/src/dungeona_ai/core/logger.py     (GameLogger)                   *)
(*   src/src/dungeona_ai/cli/main.py        (AdventureGame)                *)
(*                                                                         *)
(* Text is a sequence of chunks (strings); concatenating the chunks gives  *)
(* the Python string.  A JSON value that is not a string (null, a number,  *)
(* an object) is the one-chunk sequence NonStr, a missing key is Absent.   *)
(***************************************************************************)
EXTENDS Integers, Sequences, FiniteSets, TLC

VARIABLES state, save_file, error_log, ai_log, op_log, game_log, pc, last, prev, calls, writers

vars == <<state, save_file, error_log, ai_log, op_log, game_log, pc, last, prev,
         calls, writers>>

(***************************************************************************)
(* Bounds                                                                  *)
(***************************************************************************)
\* longest model identifier, in chunks
MaxIdLen == 2
\* number of GameCore calls / session commands in one behaviour
MaxCalls == 2

(***************************************************************************)
(* Text                                                                    *)
(***************************************************************************)
Absent == <<"#absent">>
NonStr == <<"#nonstr">>
NoneVal == <<"#None">>

IsStr(v) == v # Absent /\ v # NonStr /\ v # NoneVal

SeqsUpTo(S, n) == UNION {[1..k -> S] : k \in 0..n}

Whitespace == {" ", "\n"}

RECURSIVE LStrip(_)
LStrip(s) == IF s # <<>> /\ Head(s) \in Whitespace THEN LStrip(Tail(s)) ELSE s

RECURSIVE RStrip(_)
RStrip(s) ==
    IF s # <<>> /\ s[Len(s)] \in Whitespace THEN RStrip(SubSeq(s, 1, Len(s) - 1)) ELSE s

\* str.strip()
Strip(s) == RStrip(LStrip(s))

\* sub in s, for sequences of chunks
Contains(s, sub) ==
    \E i \in 0..(Len(s) - Len(sub)) : \A j \in 1..Len(sub) : s[i + j] = sub[j]

(***************************************************************************)
(* Model identifiers                                                       *)
(***************************************************************************)
AlnumChunks == {"qwen", "GPT", "x9"}
IdChunks == AlnumChunks \cup {"/", ":", "-", "_"}
ModelIds == SeqsUpTo(IdChunks, MaxIdLen)

\* str.lower(), chunk by chunk
LowerChunk(c) == IF c = "GPT" THEN "gpt" ELSE c
Lower(s) == [i \in 1..Len(s) |-> LowerChunk(s[i])]

\* str.isalnum(): non-empty and every character alphanumeric
IsAlnum(s) == s # <<>> /\ \A i \in 1..Len(s) : s[i] \in AlnumChunks

VendorPrefixes == {<<"qwen", "/">>, <<"llama", "/">>, <<"mistral", "/">>, <<"gpt", "/">>}

\* CONFIG["DEFAULT_MODEL"] = "qwen3-vl:4b"
DEFAULT_MODEL == <<"qwen", "x9", "-", "x9", ":", "x9">>

(***************************************************************************)
(* HTTP                                                                    *)
(***************************************************************************)
OLLAMA_URL == "http://localhost:11434/api/generate"
LM_STUDIO_URL == "http://localhost:11435/v1/chat/completions"
OLLAMA_TAGS_URL == "http://localhost:11434/api/tags"
LM_STUDIO_MODELS_URL == "http://localhost:11435/v1/models"
ALLTALK_URL == "http://localhost:7851"
ALLTALK_API_URL == "http://localhost:7851/api/tts-generate"

\* what a GET health probe can meet
ProbeOutcomes == {"200", "non200", "exception"}

\* what a POST can meet before the body is looked at
PostFailures == {"timeout", "connection_error", "http_error", "bad_json"}

ReplyTexts == {<<>>, <<" ">>, <<"The door opens.">>, <<" ", "The door opens.", "\n">>}
JsonStrings == ReplyTexts \cup {Absent, NonStr}

\* decoded JSON bodies, by the fields the adapters read
ObjectBody(resp, ch, msg, cont) ==
    [top |-> "object", response |-> resp, choices |-> ch, message |-> msg, content |-> cont]
NonObjectBody ==
    [top |-> "nonobject", response |-> Absent, choices |-> "absent",
     message |-> "absent", content |-> Absent]
Bodies ==
    {NonObjectBody}
    \cup {ObjectBody(r, "absent", "absent", Absent) : r \in JsonStrings}
    \cup {ObjectBody(Absent, c, "absent", Absent) : c \in {"nonlist", "empty", "elem_nonobject"}}
    \cup {ObjectBody(Absent, "elem_object", m, Absent) : m \in {"absent", "nonobject"}}
    \cup {ObjectBody(Absent, "elem_object", "object", c) : c \in JsonStrings}

PostResults ==
    {[outcome |-> o, body |-> NonObjectBody] : o \in PostFailures}
    \cup {[outcome |-> "ok", body |-> b] : b \in Bodies}

Call(method, url, outcome) == [method |-> method, url |-> url, outcome |-> outcome]

\* the effect of a piece of code: value returned, whether an exception
\* leaves it, requests sent, log_error / log_ai_request / log_operation calls
Effect(ret, exc, http, errs, ai, ops) ==
    [ret |-> ret, exc |-> exc, http |-> http, errs |-> errs, ai |-> ai, ops |-> ops]


NoEffect(ret) == Effect(ret, FALSE, <<>>, <<>>, 0, 0)
Raise == Effect(<<>>, TRUE, <<>>, <<>>, 0, 0)

\* b runs after a: a's requests and log calls, then b's, and b's result
Then(a, b) ==
    Effect(b.ret, b.exc, a.http \o b.http, a.errs \o b.errs, a.ai + b.ai, a.ops + b.ops)

\* one more log_error call after what a did, returning ret
LogErrorThen(a, message, ret) ==
    Effect(ret, FALSE, a.http, Append(a.errs, message), a.ai, a.ops)

(***************************************************************************)
(* GameCore                                                                *)
(***************************************************************************)
\* requests.get(url, timeout=10); True iff the status is 200; an exception is
\* logged with the service name and gives False
CheckServer(url, service_name, outcome) ==
    IF outcome = "exception"
    THEN Effect(FALSE, FALSE, <<Call("GET", url, outcome)>>,
                <<<<service_name, " check failed">>>>, 0, 0)
    ELSE Effect(outcome = "200", FALSE, <<Call("GET", url, outcome)>>, <<>>, 0, 0)

CheckOllamaServer(outcome) == CheckServer(OLLAMA_TAGS_URL, "Ollama", outcome)

CheckLmStudioServer(outcome) == CheckServer(LM_STUDIO_MODELS_URL, "LM Studio", outcome)

CheckAlltalkServer(outcome) == CheckServer(ALLTALK_URL, "AllTalk", outcome)

\* '/' in model or any(prefix in model.lower() for prefix in [...])
LmStudioRule(model) ==
    Contains(model, <<"/">>) \/ \E prefix \in VendorPrefixes : Contains(Lower(model), prefix)

\* ':' in model or model.isalnum() or '-' in model
OllamaRule(model) ==
    Contains(model, <<":">>) \/ IsAlnum(model) \/ Contains(model, <<"-">>)

\* faulty variant: the Ollama probe is issued first
ProbeServersOllamaFirst(lm, ol) ==
    LET a == CheckOllamaServer(ol)
        b == CheckLmStudioServer(lm)
    IN  IF a.ret THEN Then(a, NoEffect("ollama"))
        ELSE IF b.ret THEN Then(Then(a, b), NoEffect("lm_studio"))
        ELSE Then(Then(a, b), NoEffect("unknown"))

\* the else branch of detect_model_type: check_lm_studio_server(), and
\* check_ollama_server() only when that returned False
ProbeServers(lm, ol) ==
    LET a == CheckLmStudioServer(lm)
        b == CheckOllamaServer(ol)
    IN  IF a.ret THEN Then(a, NoEffect("lm_studio"))
        ELSE IF b.ret THEN Then(Then(a, b), NoEffect("ollama"))
        ELSE Then(Then(a, b), NoEffect("unknown"))

\* faulty variant: the Ollama rule is tried before the LM Studio rule
DetectModelTypeOllamaRuleFirst(model, lm, ol) ==
    IF ~IsStr(model) THEN Raise
    ELSE IF OllamaRule(model) THEN NoEffect("ollama")
    ELSE IF LmStudioRule(model) THEN NoEffect("lm_studio")
    ELSE ProbeServers(lm, ol)

\* faulty variant: the hyphen test is missing from the Ollama rule
DetectModelTypeNoHyphen(model, lm, ol) ==
    IF ~IsStr(model) THEN Raise
    ELSE IF LmStudioRule(model) THEN NoEffect("lm_studio")
    ELSE IF Contains(model, <<":">>) \/ IsAlnum(model) THEN NoEffect("ollama")
    ELSE ProbeServers(lm, ol)

\* detect_model_type; a model that is not a string makes `'/' in model` raise
DetectModelType(model, lm, ol) ==
    IF ~IsStr(model) THEN Raise
    ELSE IF LmStudioRule(model) THEN NoEffect("lm_studio")
    ELSE IF OllamaRule(model) THEN NoEffect("ollama")
    ELSE ProbeServers(lm, ol)

\* response_data.get("response", "").strip()
OllamaReply(body) ==
    IF body.top # "object" THEN Raise
    ELSE LET r == IF body.response = Absent THEN <<>> ELSE body.response
         IN  IF ~IsStr(r) THEN Raise ELSE NoEffect(Strip(r))

\* response_data.get("choices", [{}])[0].get("message", {}).get("content", "").strip()
LmStudioReply(body) ==
    IF body.top # "object" THEN Raise
    ELSE IF body.choices \in {"nonlist", "empty", "elem_nonobject"} THEN Raise
    ELSE IF body.choices = "absent" THEN NoEffect(<<>>)
    ELSE IF body.message = "nonobject" THEN Raise
    ELSE IF body.message = "absent" THEN NoEffect(<<>>)
    ELSE LET c == IF body.content = Absent THEN <<>> ELSE body.content
         IN  IF ~IsStr(c) THEN Raise ELSE NoEffect(Strip(c))

\* faulty variant: every failure is caught inside the adapter
AdapterCatchesAll(url, provider, reply, post) ==
    LET sent == Effect(<<>>, FALSE, <<Call("POST", url, post.outcome)>>, <<>>, 0, 0)
    IN  IF post.outcome = "ok" /\ ~reply.exc
        THEN Then(sent, Effect(reply.ret, FALSE, <<>>, <<>>, 1, 0))
        ELSE LogErrorThen(sent, <<provider, " request failed">>, <<>>)

\* the shared shape of _get_ollama_response and _get_lm_studio_response
Adapter(url, provider, reply, post) ==
    LET sent == Effect(<<>>, FALSE, <<Call("POST", url, post.outcome)>>, <<>>, 0, 0)
    IN  CASE post.outcome = "timeout" ->
                LogErrorThen(sent, <<provider, " request timed out">>, <<>>)
          [] post.outcome = "connection_error" ->
                LogErrorThen(sent, <<"Cannot connect to ", provider, " server">>, <<>>)
          [] post.outcome \in {"http_error", "bad_json"} -> Then(sent, Raise)
          [] post.outcome = "ok" ->
                IF reply.exc THEN Then(sent, Raise)
                ELSE Then(sent, Effect(reply.ret, FALSE, <<>>, <<>>, 1, 0))

GetOllamaResponse(post) == Adapter(OLLAMA_URL, "Ollama", OllamaReply(post.body), post)

GetLmStudioResponse(post) == Adapter(LM_STUDIO_URL, "LM Studio", LmStudioReply(post.body), post)

\* faulty variant: an unknown classification falls through to the Ollama adapter
AiResponseBodyGuessOllama(model, lm, ol, post) ==
    LET d == DetectModelType(model, lm, ol)
    IN  IF d.exc THEN d
        ELSE IF d.ret = "lm_studio" THEN Then(d, GetLmStudioResponse(post))
        ELSE Then(d, GetOllamaResponse(post))

\* get_ai_response before its outer try/except
AiResponseBody(model, lm, ol, post) ==
    LET d == DetectModelType(model, lm, ol)
    IN  IF d.exc THEN d
        ELSE IF d.ret = "lm_studio" THEN Then(d, GetLmStudioResponse(post))
        ELSE IF d.ret = "ollama" THEN Then(d, GetOllamaResponse(post))
        ELSE LogErrorThen(d, <<"Unknown model type for model: ">> \o model, <<>>)

\* faulty variant: no outer try/except
GetAiResponseNoCatch(model, current_model, lm, ol, post) ==
    AiResponseBody(IF model = NoneVal THEN current_model ELSE model, lm, ol, post)

\* get_ai_response(prompt, model): model None means state.current_model
GetAiResponse(model, current_model, lm, ol, post) ==
    LET m == IF model = NoneVal THEN current_model ELSE model
        e == AiResponseBody(m, lm, ol, post)
    IN  IF e.exc THEN LogErrorThen(e, <<"Error getting AI response">>, <<>>) ELSE e


(***************************************************************************)
(* State                                                                   *)
(***************************************************************************)
\* GameState(): the dataclass defaults (character_name is the Chinese
\* transliteration of Alex in the source)
GameState ==
    [conversation |-> <<>>, last_ai_reply |-> <<>>, last_player_input |-> <<>>,
     current_model |-> DEFAULT_MODEL, character_name |-> <<"Alex">>,
     selected_genre |-> <<>>, selected_role |-> <<>>, adventure_started |-> FALSE]

\* no file at CONFIG["SAVE_FILE"]
MissingFile ==
    [kind |-> "missing", conversation |-> Absent, metadata |-> "absent",
     character_name |-> Absent, genre |-> Absent, role |-> Absent, model |-> Absent]

\* no process is inside a logging call
NoWriters == <<>>

NoPost == [outcome |-> "none", body |-> NonObjectBody]

\* the record of the latest call: its arguments, what it returned and did
NoCall ==
    [op |-> "none", model |-> <<>>, input |-> <<>>, type |-> "", ret |-> <<>>, ok |-> FALSE,
     raised |-> FALSE, http |-> <<>>, errs |-> <<>>, ai |-> 0, post |-> NoPost,
     log_ok |-> TRUE, log_before |-> 0, pre |-> GameState, result |-> <<>>,
     written |-> <<>>, paths |-> <<>>]

\* GameLogger.log_error appends one block per call; a failure to open or
\* write the file is swallowed and leaves the file as it was
LogErrors(log, errs, log_ok) == IF log_ok THEN log \o errs ELSE log

\* log_ai_request / log_operation, counted per channel
LogCount(n, k, log_ok) == IF log_ok THEN n + k ELSE n

\* the POST a call made, if any
PostOf(e, post) ==
    IF \E i \in 1..Len(e.http) : e.http[i].method = "POST" THEN post ELSE NoPost

(***************************************************************************)
(* GameCore: text to speech and model enumeration                          *)
(***************************************************************************)
\* what speak() can meet: the AllTalk probe, then the POST to the TTS API
TtsOutcomes ==
    {[probe |-> "non200", post |-> "none"], [probe |-> "exception", post |-> "none"],
     [probe |-> "200", post |-> "ok"], [probe |-> "200", post |-> "error"]}

\* speak(text): nothing for blank text; otherwise the AllTalk probe, the POST,
\* and one operation record; any exception is logged and swallowed
Speak(text, tts) ==
    IF ~IsStr(text) THEN LogErrorThen(NoEffect(<<>>), <<"Error in TTS">>, <<>>)
    ELSE IF Strip(text) = <<>> THEN NoEffect(<<>>)
    ELSE LET a == CheckAlltalkServer(tts.probe)
             sent == Effect(<<>>, FALSE, <<Call("POST", ALLTALK_API_URL, tts.post)>>, <<>>, 0, 0)
         IN  IF ~a.ret THEN Then(a, NoEffect(<<>>))
             ELSE IF tts.post = "ok"
                  THEN Then(Then(a, sent), Effect(<<>>, FALSE, <<>>, <<>>, 0, 1))
                  ELSE LogErrorThen(Then(a, sent), <<"Error in TTS">>, <<>>)

\* get_ollama_models: probe, then `ollama list`; run is how the command ended
GetOllamaModels(probe, run, listed) ==
    LET a == CheckOllamaServer(probe)
    IN  IF ~a.ret THEN Then(a, Effect(<<>>, FALSE, <<>>, <<>>, 0, 1))
        ELSE CASE run = "nonzero" ->
                    LogErrorThen(a, <<"Ollama list command failed with exit code">>, <<>>)
               [] run = "timeout" -> LogErrorThen(a, <<"Ollama list command timed out">>, <<>>)
               [] run = "error" -> LogErrorThen(a, <<"Error getting Ollama models">>, <<>>)
               [] run = "ok" -> Then(a, NoEffect(listed))

\* get_lm_studio_models: probe, then GET /v1/models again and read data[].id
GetLmStudioModels(probe, get, listed) ==
    LET a == CheckLmStudioServer(probe)
        sent == Then(a, Effect(<<>>, FALSE, <<Call("GET", LM_STUDIO_MODELS_URL, get)>>,
                               <<>>, 0, 0))
    IN  IF ~a.ret THEN Then(a, NoEffect(<<>>))
        ELSE CASE get = "timeout" ->
                    LogErrorThen(sent, <<"LM Studio models request timed out">>, <<>>)
               [] get = "connection_error" ->
                    LogErrorThen(sent, <<"Cannot connect to LM Studio server">>, <<>>)
               [] get = "http_error" ->
                    LogErrorThen(sent, <<"Error getting LM Studio models">>, <<>>)
               [] get = "ok" -> Then(sent, NoEffect(listed))

\* get_installed_models: the Ollama list followed by the LM Studio list
GetInstalledModels(env) ==
    LET a == GetOllamaModels(env.ol_probe, env.ol_run, env.ol_models)
        b == GetLmStudioModels(env.lm_probe, env.lm_get, env.lm_models)
    IN  Then(Then(a, b), NoEffect(a.ret \o b.ret))

(***************************************************************************)
(* AdventureGame                                                           *)
(***************************************************************************)
DM_MARKER == "Dungeon Master:"

\* select_model: with no installed model the typed name or the default; else
\* the chosen entry, or the default on an empty answer (choice 0)
SelectModel(models, typed, choice) ==
    IF models = <<>> THEN (IF typed = <<>> THEN DEFAULT_MODEL ELSE typed)
    ELSE IF choice \in 1..Len(models) THEN models[choice]
    ELSE DEFAULT_MODEL

\* get_role_starter: t() gives back the key when the locale has no entry
RoleStarter(genre, role) ==
    <<"role_starters.">> \o Lower(genre) \o <<".">> \o Lower(role)

\* initial_context of start_new_adventure
InitialContext(genre, name, role) ==
    <<"### Adventure Setting ###\nGenre: ">> \o genre \o <<"\nPlayer Character: ">> \o name
      \o <<" the ">> \o role \o <<"\nStarting Scenario: ">> \o RoleStarter(genre, role)
      \o <<"\n\n", DM_MARKER, " ">>

\* faulty variant: a failed first reply still starts the adventure, with a
\* stand-in for the reply
StartNewAdventureAlwaysStarted(s, genre, role, name, lm, ol, post, tts) ==
    LET s2 == [s EXCEPT !.selected_genre = genre, !.selected_role = role,
                        !.character_name = name,
                        !.conversation = InitialContext(genre, name, role)]
        r == GetAiResponse(NoneVal, s.current_model, lm, ol, post)
        text == IF r.ret # <<>> THEN r.ret ELSE <<"The adventure begins.">>
    IN  [state |-> [s2 EXCEPT !.conversation = s2.conversation \o text,
                              !.last_ai_reply = text, !.adventure_started = TRUE],
         ok |-> r.ret # <<>>, reply |-> r.ret, eff |-> r]

\* start_new_adventure
StartNewAdventure(s, genre, role, name, lm, ol, post, tts) ==
    LET s1 == [s EXCEPT !.selected_genre = genre, !.selected_role = role,
                        !.character_name = IF name = <<>> THEN <<"defaults.character_name">>
                                           ELSE name]
        s2 == [s1 EXCEPT !.conversation = InitialContext(genre, s1.character_name, role)]
        r == GetAiResponse(NoneVal, s.current_model, lm, ol, post)
    IN  IF r.ret # <<>>
        THEN [state |-> [s2 EXCEPT !.conversation = s2.conversation \o r.ret,
                                   !.last_ai_reply = r.ret, !.adventure_started = TRUE],
              ok |-> TRUE, reply |-> r.ret, eff |-> Then(r, Speak(r.ret, tts))]
        ELSE [state |-> s2, ok |-> FALSE, reply |-> r.ret, eff |-> r]

\* save_adventure: building save_data evaluates datetime.datetime.now(), but
\* cli/main.py never imports datetime; the NameError is caught, logged, and
\* False is returned before the file is opened
SaveAdventure(s, f) ==
    [state |-> s, file |-> f, ok |-> FALSE,
     eff |-> LogErrorThen(NoEffect(<<>>), <<"ui.failed_to_save_adventure">>, <<>>)]

\* str.rfind: the last position of the marker, 0 when there is none
RFind(text, chunk) ==
    IF \E i \in 1..Len(text) : text[i] = chunk
    THEN CHOOSE i \in 1..Len(text) :
            text[i] = chunk /\ \A j \in (i + 1)..Len(text) : text[j] # chunk
    ELSE 0

LoadFailed(s) ==
    [state |-> s, ok |-> FALSE,
     eff |-> LogErrorThen(NoEffect(<<>>), <<"ui.failed_to_load_adventure">>, <<>>)]

\* metadata.get(key, default)
MetaGet(v, default) == IF v = Absent THEN default ELSE v

\* load_adventure once the file is known to exist: the assignments happen one
\* by one, so an exception leaves the ones already made in place
LoadExisting(s, f) ==
    IF f.kind \in {"unreadable", "notjson", "nonobject"} THEN LoadFailed(s)
    ELSE IF f.conversation = Absent THEN LoadFailed(s)
    ELSE LET s1 == [s EXCEPT !.conversation = f.conversation]
             s2 == [s1 EXCEPT
                      !.character_name = MetaGet(f.character_name, <<"defaults.character_name">>),
                      !.selected_genre = MetaGet(f.genre, <<"Fantasy">>),
                      !.selected_role = MetaGet(f.role, <<"Adventurer">>),
                      !.current_model = MetaGet(f.model, DEFAULT_MODEL)]
             last_dm == RFind(f.conversation, DM_MARKER)
             s3 == IF last_dm # 0
                   THEN [s2 EXCEPT !.last_ai_reply =
                           Strip(SubSeq(f.conversation, last_dm + 1, Len(f.conversation)))]
                   ELSE s2
         IN  IF f.metadata = "nonobject" THEN LoadFailed(s1)
             ELSE IF ~IsStr(f.conversation) THEN LoadFailed(s2)
             ELSE [state |-> [s3 EXCEPT !.adventure_started = TRUE], ok |-> TRUE,
                   eff |-> NoEffect(<<>>)]

\* faulty variant: a missing save file resets the session to its defaults
LoadAdventureResetOnMissing(s, f) ==
    IF f.kind = "missing" THEN [state |-> GameState, ok |-> FALSE, eff |-> NoEffect(<<>>)]
    ELSE LoadExisting(s, f)

\* load_adventure
LoadAdventure(s, f) ==
    IF f.kind = "missing" THEN [state |-> s, ok |-> FALSE, eff |-> NoEffect(<<>>)]
    ELSE LoadExisting(s, f)

\* faulty variant: last_player_input is assigned only once a reply has come
ProcessPlayerInputAssignsLate(s, input, lm, ol, post, tts) ==
    LET r == GetAiResponse(NoneVal, s.current_model, lm, ol, post)
        spoken == Then(r, Speak(r.ret, tts))
    IN  IF r.ret = <<>> THEN [state |-> s, reply |-> r.ret, eff |-> r]
        ELSE IF ~IsStr(s.conversation)
        THEN [state |-> s, reply |-> r.ret, eff |-> Then(spoken, Raise)]
        ELSE [state |-> [s EXCEPT !.last_player_input = input,
                                  !.conversation = s.conversation \o <<"\n", "Player: ">>
                                                     \o input \o <<"\n", DM_MARKER, " ">> \o r.ret,
                                  !.last_ai_reply = r.ret],
              reply |-> r.ret, eff |-> spoken]

\* faulty variant: the turn is recorded whatever the reply
ProcessPlayerInputAlwaysAppend(s, input, lm, ol, post, tts) ==
    LET r == GetAiResponse(NoneVal, s.current_model, lm, ol, post)
    IN  [state |-> [s EXCEPT !.last_player_input = input,
                             !.conversation = s.conversation \o <<"\n", "Player: ">> \o input
                                                \o <<"\n", DM_MARKER, " ">> \o r.ret,
                             !.last_ai_reply = r.ret],
         reply |-> r.ret, eff |-> r]

\* process_player_input; `conversation +=` raises TypeError when a load has
\* left a conversation that is not a string
ProcessPlayerInput(s, input, lm, ol, post, tts) ==
    LET s1 == [s EXCEPT !.last_player_input = input]
        r == GetAiResponse(NoneVal, s.current_model, lm, ol, post)
        spoken == Then(r, Speak(r.ret, tts))
    IN  IF r.ret = <<>> THEN [state |-> s1, reply |-> r.ret, eff |-> r]
        ELSE IF ~IsStr(s.conversation)
        THEN [state |-> s1, reply |-> r.ret, eff |-> Then(spoken, Raise)]
        ELSE [state |-> [s1 EXCEPT !.conversation = s.conversation \o <<"\n", "Player: ">>
                                                      \o input \o <<"\n", DM_MARKER, " ">> \o r.ret,
                                   !.last_ai_reply = r.ret],
              reply |-> r.ret, eff |-> spoken]

(***************************************************************************)
(* One call of a GameCore method on a freshly constructed GameCore         *)
(***************************************************************************)
InitCore ==
    /\ state = GameState
    /\ save_file = MissingFile
    /\ error_log = <<>>
    /\ ai_log = 0
    /\ op_log = 0
    /\ game_log = 0
    /\ pc = "core"
    /\ last = NoCall
    /\ prev = [op |-> "none", pre |-> GameState]
    /\ calls = 0
    /\ writers = NoWriters

CallDetectModelType ==
    /\ pc = "core"
    /\ \E model \in ModelIds, lm \in ProbeOutcomes, ol \in ProbeOutcomes, log_ok \in BOOLEAN :
         \E d \in {DetectModelType(model, lm, ol)} :
             /\ last' = [NoCall EXCEPT !.op = "detect_model_type", !.model = model,
                                       !.type = IF d.exc THEN "" ELSE d.ret,
                                       !.raised = d.exc, !.http = d.http, !.errs = d.errs,
                                       !.log_ok = log_ok, !.pre = state]
             /\ error_log' = LogErrors(error_log, d.errs, log_ok)
    /\ prev' = [op |-> last.op, pre |-> last.pre]
    /\ pc' = "returned"
    /\ UNCHANGED calls
    /\ UNCHANGED <<state, save_file, writers, ai_log, op_log, game_log>>

CallGetAiResponse ==
    /\ pc = "core"
    /\ \E model \in ModelIds \cup {NoneVal}, lm \in ProbeOutcomes, ol \in ProbeOutcomes,
          post \in PostResults, log_ok \in BOOLEAN :
         \E m \in {IF model = NoneVal THEN state.current_model ELSE model},
            e \in {GetAiResponse(model, state.current_model, lm, ol, post)} :
           \E d \in {DetectModelType(m, lm, ol)} :
             /\ last' = [NoCall EXCEPT !.op = "get_ai_response", !.model = m,
                                       !.type = IF d.exc THEN "" ELSE d.ret,
                                       !.ret = e.ret, !.raised = e.exc, !.http = e.http,
                                       !.errs = e.errs, !.ai = e.ai, !.post = PostOf(e, post),
                                       !.log_ok = log_ok, !.pre = state]
             /\ error_log' = LogErrors(error_log, e.errs, log_ok)
             /\ ai_log' = LogCount(ai_log, e.ai, log_ok)
    /\ prev' = [op |-> last.op, pre |-> last.pre]
    /\ pc' = "returned"
    /\ UNCHANGED calls
    /\ UNCHANGED <<state, save_file, writers, op_log, game_log>>

\* _get_ollama_response / _get_lm_studio_response called directly
CallAdapter(op, type, e, post, log_ok) ==
    /\ last' = [NoCall EXCEPT !.op = op, !.model = state.current_model, !.type = type,
                              !.ret = e.ret, !.raised = e.exc, !.http = e.http,
                              !.errs = e.errs, !.ai = e.ai, !.post = post,
                              !.log_ok = log_ok, !.pre = state]
    /\ error_log' = LogErrors(error_log, e.errs, log_ok)
    /\ ai_log' = LogCount(ai_log, e.ai, log_ok)
    /\ prev' = [op |-> last.op, pre |-> last.pre]
    /\ pc' = "returned"
    /\ UNCHANGED <<state, save_file, writers, op_log, game_log, calls>>

CallGetOllamaResponse ==
    /\ pc = "core"
    /\ \E post \in PostResults, log_ok \in BOOLEAN :
         \E e \in {GetOllamaResponse(post)} :
           CallAdapter("_get_ollama_response", "ollama", e, post, log_ok)

CallGetLmStudioResponse ==
    /\ pc = "core"
    /\ \E post \in PostResults, log_ok \in BOOLEAN :
         \E e \in {GetLmStudioResponse(post)} :
           CallAdapter("_get_lm_studio_response", "lm_studio", e, post, log_ok)

\* check_server(url, service_name) called directly
CallCheckServer ==
    /\ pc = "core"
    /\ \E service \in {[url |-> OLLAMA_TAGS_URL, name |-> "Ollama"],
                        [url |-> LM_STUDIO_MODELS_URL, name |-> "LM Studio"],
                        [url |-> ALLTALK_URL, name |-> "AllTalk"]},
          outcome \in ProbeOutcomes, log_ok \in BOOLEAN :
         \E e \in {CheckServer(service.url, service.name, outcome)} :
             /\ last' = [NoCall EXCEPT !.op = "check_server", !.input = <<service.name>>,
                                       !.ok = e.ret, !.raised = e.exc, !.http = e.http,
                                       !.errs = e.errs, !.log_ok = log_ok, !.pre = state]
             /\ error_log' = LogErrors(error_log, e.errs, log_ok)
    /\ prev' = [op |-> last.op, pre |-> last.pre]
    /\ pc' = "returned"
    /\ UNCHANGED <<state, save_file, writers, ai_log, op_log, game_log, calls>>

NextCore ==
    \/ CallCheckServer
    \/ CallDetectModelType
    \/ CallGetAiResponse
    \/ CallGetOllamaResponse
    \/ CallGetLmStudioResponse

SpecCore == InitCore /\ [][NextCore]_vars


(***************************************************************************)
(* AdventureGame.run: the session                                          *)
(***************************************************************************)
LmModel == <<"qwen", "/", "x9">>
Story == <<"### Adventure Setting ###", "\n\n", DM_MARKER, " ", "You wake.", "\n">>

FileObject(conv, meta, name, genre, role, model) ==
    [kind |-> "object", conversation |-> conv, metadata |-> meta,
     character_name |-> name, genre |-> genre, role |-> role, model |-> model]

FullMeta(conv) == FileObject(conv, "object", <<"Bran">>, <<"WW1">>, <<"Civilian">>, LmModel)

\* what can be found at CONFIG["SAVE_FILE"]
SaveFiles ==
    {MissingFile,
     [MissingFile EXCEPT !.kind = "unreadable"],
     [MissingFile EXCEPT !.kind = "notjson"],
     [MissingFile EXCEPT !.kind = "nonobject"],
     FullMeta(Absent), FullMeta(NonStr), FullMeta(<<>>), FullMeta(<<"Once upon a time">>),
     FullMeta(Story),
     FileObject(Story, "nonobject", Absent, Absent, Absent, Absent),
     FileObject(Story, "absent", Absent, Absent, Absent, Absent),
     FileObject(Story, "object", NonStr, Absent, <<"Bard">>, <<>>)}

Inputs == {<<"look around">>, <<"go north">>}
Characters == {[genre |-> <<"Fantasy">>, role |-> <<"Mage">>, name |-> <<"Ayla">>]}

Quiet == [probe |-> "non200", post |-> "none"]
Reply(text) == [outcome |-> "ok", body |-> ObjectBody(text, "elem_object", "object", text)]
NoReply == [outcome |-> "ok", body |-> ObjectBody(Absent, "absent", "absent", Absent)]
Failure(kind) == [outcome |-> kind, body |-> NonObjectBody]

Env(lm, ol, post, tts, log_ok) ==
    [lm |-> lm, ol |-> ol, post |-> post, tts |-> tts, log_ok |-> log_ok]

\* the surroundings of one get_ai_response / speak pair
TurnEnvs ==
    {Env("exception", "non200", Failure("timeout"), Quiet, TRUE),
     Env("non200", "200", NoReply, Quiet, TRUE),
     Env("200", "200", Failure("http_error"), Quiet, FALSE),
     Env("non200", "non200", Failure("connection_error"), Quiet, TRUE),
     Env("exception", "exception", Reply(<<" ">>), Quiet, TRUE),
     Env("200", "non200", Reply(<<" ", "The door opens.", "\n">>), Quiet, TRUE),
     Env("non200", "200", Reply(<<"The door opens.">>), [probe |-> "200", post |-> "ok"], TRUE),
     Env("exception", "200", Reply(<<"The door opens.">>),
         [probe |-> "200", post |-> "error"], TRUE)}

StartEnvs ==
    {Env("non200", "non200", Failure("connection_error"), Quiet, TRUE),
     Env("exception", "200", Reply(<<" ">>), Quiet, TRUE),
     Env("200", "200", Reply(<<"You wake.">>), Quiet, TRUE)}

Servers(ol_probe, ol_run, ol_models, lm_probe, lm_get, lm_models) ==
    [ol_probe |-> ol_probe, ol_run |-> ol_run, ol_models |-> ol_models,
     lm_probe |-> lm_probe, lm_get |-> lm_get, lm_models |-> lm_models]

\* what select_model can meet, with the player's answer
SelectScenarios ==
    {[env |-> Servers("non200", "ok", <<>>, "non200", "ok", <<>>),
      typed |-> <<"_">>, choice |-> 0, log_ok |-> TRUE],
     [env |-> Servers("200", "nonzero", <<>>, "200", "timeout", <<>>),
      typed |-> <<>>, choice |-> 0, log_ok |-> TRUE],
     [env |-> Servers("exception", "ok", <<>>, "200", "ok", <<LmModel>>),
      typed |-> <<>>, choice |-> 1, log_ok |-> TRUE],
     [env |-> Servers("200", "ok", <<DEFAULT_MODEL>>, "200", "ok", <<LmModel>>),
      typed |-> <<>>, choice |-> 2, log_ok |-> FALSE]}

\* the record of a session step
Record(op, s, e, log_ok) ==
    [NoCall EXCEPT !.op = op, !.model = s.current_model, !.raised = e.exc, !.http = e.http,
                   !.errs = e.errs, !.ai = e.ai, !.log_ok = log_ok,
                   !.log_before = Len(error_log), !.pre = s]

Logged(e, log_ok) ==
    /\ error_log' = LogErrors(error_log, e.errs, log_ok)
    /\ ai_log' = LogCount(ai_log, e.ai, log_ok)
    /\ op_log' = LogCount(op_log, e.ops, log_ok)
    /\ game_log' = game_log

\* the classification get_ai_response made for the session's model
TypeOf(s, env) ==
    LET d == DetectModelType(s.current_model, env.lm, env.ol)
    IN  IF d.exc THEN "" ELSE d.ret

Init ==
    /\ state = GameState
    /\ save_file \in SaveFiles
    /\ error_log = <<>>
    /\ ai_log = 0
    /\ op_log = 0
    /\ game_log = 0
    /\ pc = "select_model"
    /\ last = NoCall
    /\ prev = [op |-> "none", pre |-> GameState]
    /\ calls = 0
    /\ writers = NoWriters

Remember == prev' = [op |-> last.op, pre |-> last.pre]

\* run: self.state.current_model = self.select_model()
SelectModelStep ==
    /\ pc = "select_model"
    /\ \E sc \in SelectScenarios :
         \E e \in {GetInstalledModels(sc.env)} :
             /\ state' = [state EXCEPT !.current_model = SelectModel(e.ret, sc.typed, sc.choice)]
             /\ last' = Record("select_model", state, e, sc.log_ok)
             /\ Logged(e, sc.log_ok)
    /\ Remember
    /\ pc' = "startup"
    /\ UNCHANGED <<save_file, writers, calls>>

\* run: a save file exists and the player answers y
StartupLoad ==
    /\ pc = "startup"
    /\ save_file.kind # "missing"
    /\ \E tts \in {Quiet, [probe |-> "200", post |-> "ok"]}, log_ok \in BOOLEAN :
         \E r \in {LoadAdventure(state, save_file)} :
           \E e \in {IF r.ok THEN Then(r.eff, Speak(r.state.last_ai_reply, tts)) ELSE r.eff} :
             /\ state' = r.state
             /\ last' = [Record("load_adventure", state, e, log_ok) EXCEPT !.ok = r.ok]
             /\ Logged(e, log_ok)
             /\ pc' = IF r.state.adventure_started THEN "loop" ELSE "start"
    /\ Remember
    /\ UNCHANGED <<save_file, writers, calls>>

\* run: no save file, or the player does not answer y
StartupSkip ==
    /\ pc = "startup"
    /\ pc' = "start"
    /\ UNCHANGED <<state, save_file, writers, error_log, ai_log, op_log, game_log, last, prev, calls>>

\* run: if not adventure_started, start_new_adventure(); return when it fails
StartAdventure ==
    /\ pc = "start"
    /\ \E ch \in Characters, env \in StartEnvs :
         \E r \in {StartNewAdventure(state, ch.genre, ch.role, ch.name,
                                     env.lm, env.ol, env.post, env.tts)} :
             /\ state' = r.state
             /\ last' = [Record("start_new_adventure", state, r.eff, env.log_ok)
                           EXCEPT !.ok = r.ok, !.ret = r.reply, !.type = TypeOf(state, env),
                                  !.post = PostOf(r.eff, env.post)]
             /\ Logged(r.eff, env.log_ok)
             /\ pc' = IF r.ok THEN "loop" ELSE "exit"
    /\ Remember
    /\ UNCHANGED <<save_file, writers, calls>>

\* faulty variant: a turn without a reply ends the session
PlayerTurnEndsOnFailure ==
    /\ pc = "loop"
    /\ calls < MaxCalls
    /\ \E input \in Inputs, env \in TurnEnvs :
         \E r \in {ProcessPlayerInput(state, input, env.lm, env.ol, env.post, env.tts)} :
             /\ state' = r.state
             /\ last' = [Record("process_player_input", state, r.eff, env.log_ok)
                           EXCEPT !.input = input, !.ret = r.reply, !.raised = r.eff.exc,
                                  !.type = TypeOf(state, env),
                                  !.post = PostOf(r.eff, env.post)]
             /\ Logged(r.eff, env.log_ok)
             /\ pc' = IF r.reply = <<>> \/ r.eff.exc THEN "exit" ELSE "loop"
    /\ Remember
    /\ calls' = calls + 1
    /\ UNCHANGED <<save_file, writers>>

\* main loop: free text; an exception leaving process_player_input is logged
\* by the loop and the loop goes on
PlayerTurn ==
    /\ pc = "loop"
    /\ calls < MaxCalls
    /\ \E input \in Inputs, env \in TurnEnvs :
         \E r \in {ProcessPlayerInput(state, input, env.lm, env.ol, env.post, env.tts)} :
           \E e \in {IF r.eff.exc THEN LogErrorThen(r.eff, <<"ui.unexpected_error">>, <<>>)
                     ELSE r.eff} :
             /\ state' = r.state
             /\ last' = [Record("process_player_input", state, e, env.log_ok)
                           EXCEPT !.input = input, !.ret = r.reply, !.raised = r.eff.exc,
                                  !.type = TypeOf(state, env), !.post = PostOf(e, env.post)]
             /\ Logged(e, env.log_ok)
    /\ Remember
    /\ calls' = calls + 1
    /\ UNCHANGED <<save_file, writers, pc>>

\* main loop: /save
CmdSave ==
    /\ pc = "loop"
    /\ calls < MaxCalls
    /\ \E log_ok \in BOOLEAN :
         \E r \in {SaveAdventure(state, save_file)} :
             /\ state' = r.state
             /\ save_file' = r.file
             /\ last' = [Record("save_adventure", state, r.eff, log_ok) EXCEPT !.ok = r.ok]
             /\ Logged(r.eff, log_ok)
    /\ Remember
    /\ calls' = calls + 1
    /\ UNCHANGED <<pc, writers>>

\* main loop: /load
CmdLoad ==
    /\ pc = "loop"
    /\ calls < MaxCalls
    /\ \E log_ok \in BOOLEAN :
         \E r \in {LoadAdventure(state, save_file)} :
             /\ state' = r.state
             /\ last' = [Record("load_adventure", state, r.eff, log_ok) EXCEPT !.ok = r.ok]
             /\ Logged(r.eff, log_ok)
    /\ Remember
    /\ calls' = calls + 1
    /\ UNCHANGED <<save_file, writers, pc>>

\* main loop: /help, /status or an unknown command only print
CmdOther ==
    /\ pc = "loop"
    /\ calls < MaxCalls
    /\ last' = Record("command", state, NoEffect(<<>>), TRUE)
    /\ Remember
    /\ calls' = calls + 1
    /\ UNCHANGED <<state, save_file, writers, error_log, ai_log, op_log, game_log, pc>>

\* main loop: /exit
CmdExit ==
    /\ pc = "loop"
    /\ pc' = "exit"
    /\ UNCHANGED <<state, save_file, writers, error_log, ai_log, op_log, game_log, last, prev, calls>>

Next ==
    \/ SelectModelStep
    \/ StartupLoad
    \/ StartupSkip
    \/ StartAdventure
    \/ PlayerTurn
    \/ CmdSave
    \/ CmdLoad
    \/ CmdOther
    \/ CmdExit

Spec == Init /\ [][Next]_vars

(***************************************************************************)
(* GameLogger                                                              *)
(***************************************************************************)
\* log_operation: len(value) > 200, value[:200]
PARAM_LIMIT == 200
\* log_operation: len(result) > 500, result[:500]
RESULT_LIMIT == 500
\* the longest text handed to the logger, in characters
LongText == 5000

\* texts of a given length, one character per element, a newline every
\* seventh character
CharAt(i) == IF i % 7 = 0 THEN "\n" ELSE IF i % 2 = 0 THEN "a" ELSE "b"
Str(n) == [i \in 1..n |-> CharAt(i)]

\* s[:n]
Take(s, n) == SubSeq(s, 1, IF Len(s) < n THEN Len(s) ELSE n)

Line(key, value) == [key |-> key, value |-> value]

\* faulty variant: a parameter of exactly the limit is cut as well
ParamValueInclusive(value) ==
    IF Len(value) >= PARAM_LIMIT
    THEN Take(value, PARAM_LIMIT)
           \o <<"...", " (truncated, total: ", ToString(Len(value)), " chars)">>
    ELSE value

\* log_operation's rendering of a string parameter
ParamValue(value) ==
    IF Len(value) > PARAM_LIMIT
    THEN Take(value, PARAM_LIMIT)
           \o <<"...", " (truncated, total: ", ToString(Len(value)), " chars)">>
    ELSE value

\* log_operation's rendering of the result
ResultValue(result) ==
    IF Len(result) > RESULT_LIMIT THEN Take(result, RESULT_LIMIT) \o <<"...">> ELSE result

\* the block log_operation writes for one string parameter `text` and a
\* result (no duration, no context): the result line only for a non-empty
\* result
OperationBlock(operation, text, result) ==
    <<Line("Operation", <<operation>>), Line("text", ParamValue(text))>>
      \o (IF result # <<>> THEN <<Line("Result", ResultValue(result))>> ELSE <<>>)

\* repr() of a str, element by element: a newline is written as backslash n
EscChar(c) == IF c = "\n" THEN "\\n" ELSE c
Repr(s) == <<"'">> \o [i \in 1..Len(s) |-> EscChar(s[i])] \o <<"'">>

\* f"{value}" of the messages list of _get_lm_studio_response
MessagesRepr(prompt) ==
    <<"[{'role': 'system', 'content': ", "repr(DM_SYSTEM_PROMPT)",
      "}, {'role': 'user', 'content': ">> \o Repr(prompt) \o <<"}]">>

\* the block log_ai_request writes for the request body an adapter built:
\* the prompt's length, the request parameters, the response details
AiRequestBlock(prompt, provider, reply) ==
    <<Line("Prompt Length", <<ToString(Len(prompt))>>), Line("model", <<"model">>)>>
      \o (IF provider = "ollama"
          THEN <<Line("prompt", prompt), Line("response", reply)>>
          ELSE <<Line("messages", MessagesRepr(prompt)),
                 Line("choices", <<"[{'message': {'content': ">> \o Repr(reply) \o <<"}}]">>)>>)

ErrorBlock(message) == <<Line("Message", message)>>

GameActionBlock(action) == <<Line("Action", <<action>>)>>

\* how opening and writing the log file can go
IoOutcomes == {"ok", "open_failed", "write_failed"}

\* faulty variant: a failed open or write reaches the caller
LoggerCallPropagates(block, io) ==
    [written |-> IF io = "ok" THEN block ELSE <<>>, exc |-> io # "ok"]

\* the try/except shared by log_error, log_operation, log_ai_request and
\* log_game_action: the block is appended, or the exception is printed and
\* swallowed (logs hold complete blocks only)
LoggerCall(block, io) ==
    [written |-> IF io = "ok" THEN block ELSE <<>>, exc |-> FALSE]

\* longest configured log file path, in components
MaxPathLen == 2

\* a path: whether it starts at the root, and its components
Path(root, parts) == [root |-> root, parts |-> parts]

PathParts == {".", "..", "logs", "saves", "operation_log.txt", "error_log.txt"}
LogFilePaths == {Path(root, parts) : root \in BOOLEAN, parts \in SeqsUpTo(PathParts, MaxPathLen)}

\* os.path.dirname, and the "." that __init__ puts in place of an empty one
BaseDir(path) ==
    LET dir == Path(path.root, SubSeq(path.parts, 1, Len(path.parts) - 1))
    IN  IF ~dir.root /\ dir.parts = <<>> THEN Path(FALSE, <<".">>) ELSE dir

\* os.path.join(base_dir, "logs", name)
LogsFile(base_dir, name) == Path(base_dir.root, base_dir.parts \o <<"logs", name>>)

\* faulty variant: the operation log shares the file of the error log
LogPathsSharedFile(log_file_path) ==
    [error |-> log_file_path,
     operation |-> log_file_path,
     ai |-> LogsFile(BaseDir(log_file_path), "ai_log.txt"),
     game |-> LogsFile(BaseDir(log_file_path), "game_log.txt")]

\* GameLogger.__init__: the four channel paths
LogPaths(log_file_path) ==
    [error |-> log_file_path,
     operation |-> LogsFile(BaseDir(log_file_path), "operation_log.txt"),
     ai |-> LogsFile(BaseDir(log_file_path), "ai_log.txt"),
     game |-> LogsFile(BaseDir(log_file_path), "game_log.txt")]

(***************************************************************************)
(* A sequence of calls of the GameLogger methods                           *)
(***************************************************************************)
InitLog ==
    /\ state = GameState
    /\ save_file = MissingFile
    /\ error_log = <<>>
    /\ ai_log = 0
    /\ op_log = 0
    /\ game_log = 0
    /\ pc = "log"
    /\ \E log_file_path \in LogFilePaths :
         last = [NoCall EXCEPT !.op = "GameLogger", !.paths = LogPaths(log_file_path)]
    /\ prev = [op |-> "none", pre |-> GameState]
    /\ calls = 0
    /\ writers = NoWriters

ParamLengths == {0, 1, PARAM_LIMIT - 1, PARAM_LIMIT, PARAM_LIMIT + 1, LongText}
ResultLengths == {0, 1, RESULT_LIMIT - 1, RESULT_LIMIT, RESULT_LIMIT + 1, LongText}

\* (parameter length, result length) pairs handed to log_operation
OperationTexts == ParamLengths \X ResultLengths

PromptLengths == {0, 1, PARAM_LIMIT + 1, LongText}

LogStep(op, type, input, result, r, io) ==
    /\ last' = [NoCall EXCEPT !.op = op, !.type = type, !.input = input, !.result = result,
                              !.written = r.written, !.raised = r.exc,
                              !.log_ok = (io = "ok"), !.log_before = Len(error_log)]
    /\ Remember
    /\ calls' = calls + 1
    /\ UNCHANGED <<state, save_file, writers, pc>>

LogError ==
    /\ pc = "log"
    /\ calls < MaxCalls
    /\ \E message \in {<<"Ollama", " request timed out">>, <<>>}, io \in IoOutcomes :
         \E r \in {LoggerCall(ErrorBlock(message), io)} :
             /\ LogStep("log_error", "", message, <<>>, r, io)
             /\ error_log' = LogErrors(error_log, <<message>>, io = "ok")
    /\ UNCHANGED <<ai_log, op_log, game_log>>

LogOperation ==
    /\ pc = "log"
    /\ calls < MaxCalls
    /\ \E n \in OperationTexts, io \in IoOutcomes :
         \E r \in {LoggerCall(OperationBlock("tts_play", Str(n[1]), Str(n[2])), io)} :
             /\ LogStep("log_operation", "", Str(n[1]), Str(n[2]), r, io)
             /\ op_log' = LogCount(op_log, 1, io = "ok")
    /\ UNCHANGED <<error_log, ai_log, game_log>>

LogAiRequest ==
    /\ pc = "log"
    /\ calls < MaxCalls
    /\ \E n \in PromptLengths, provider \in {"ollama", "lm_studio"}, io \in IoOutcomes :
         \E r \in {LoggerCall(AiRequestBlock(Str(n), provider, <<"The door opens.">>), io)} :
             /\ LogStep("log_ai_request", provider, Str(n), <<"The door opens.">>, r, io)
             /\ ai_log' = LogCount(ai_log, 1, io = "ok")
    /\ UNCHANGED <<error_log, op_log, game_log>>

LogGameAction ==
    /\ pc = "log"
    /\ calls < MaxCalls
    /\ \E action \in {"player_input", "game_saved"}, io \in IoOutcomes :
         \E r \in {LoggerCall(GameActionBlock(action), io)} :
             /\ LogStep("log_game_action", "", <<action>>, <<>>, r, io)
             /\ game_log' = LogCount(game_log, 1, io = "ok")
    /\ UNCHANGED <<error_log, ai_log, op_log>>

NextLog == LogError \/ LogOperation \/ LogAiRequest \/ LogGameAction

SpecLog == InitLog /\ [][NextLog]_vars

(***************************************************************************)
(* Two processes logging to the same channel path                          *)
(*                                                                         *)
(* Every log_* method opens its file with open(path, "a"), passes the      *)
(* block to log_file.write line by line and closes the file when the with  *)
(* statement ends.  The file object is buffered: the lines collect in the  *)
(* buffer, which is handed to the operating system when it is full and     *)
(* once more on close.  A block that fits the buffer reaches the file in   *)
(* one append, a longer one (the prompt, the messages and the response of  *)
(* log_ai_request and the message and traceback of log_error are written   *)
(* in full) in several appends.  Each append is placed at the end of the   *)
(* file as it is at that moment.  Here error_log is the shared file, as    *)
(* the sequence of the appends it received.                                *)
(***************************************************************************)
\* the greatest number of appends one block is split into
MaxWrites == 2

Processes == {"p1", "p2"}

\* the i-th of the n parts of the k-th block of process p; part 1 begins with
\* the start marker and part n ends with the end marker
Piece(p, k, i, n) == <<p, ToString(k), ToString(i), ToString(n)>>

\* the appends the buffered file object issues for one block
BufferedWrites(p, k, n) == [i \in 1..n |-> Piece(p, k, i, n)]

Idle == [todo |-> <<>>, done |-> 0]

InitConc ==
    /\ state = GameState
    /\ save_file = MissingFile
    /\ error_log = <<>>
    /\ ai_log = 0
    /\ op_log = 0
    /\ game_log = 0
    /\ pc = "conc"
    /\ last = [NoCall EXCEPT !.op = "GameLogger"]
    /\ prev = NoCall
    /\ calls = 0
    /\ writers = [p \in Processes |-> Idle]

\* a process enters a log_* method: the file is opened and the block is
\* written into the buffer
OpenAndWrite(p) ==
    /\ pc = "conc"
    /\ writers[p].todo = <<>>
    /\ writers[p].done < MaxCalls
    /\ \E n \in 1..MaxWrites :
          writers' = [writers EXCEPT
                         ![p].todo = BufferedWrites(p, writers[p].done + 1, n)]
    /\ UNCHANGED <<state, save_file, error_log, ai_log, op_log, game_log, pc,
                   last, prev, calls>>

\* the buffer of a process is handed over: one append at the end of the file;
\* after the last one the file is closed and the method returns
Flush(p) ==
    /\ pc = "conc"
    /\ writers[p].todo # <<>>
    /\ error_log' = Append(error_log, Head(writers[p].todo))
    /\ writers' = [writers EXCEPT
                      ![p].todo = Tail(@),
                      ![p].done = IF Len(writers[p].todo) = 1 THEN @ + 1 ELSE @]
    /\ UNCHANGED <<state, save_file, ai_log, op_log, game_log, pc, last, prev,
                   calls>>

NextConc == \E p \in Processes : OpenAndWrite(p) \/ Flush(p)

SpecConc == InitConc /\ [][NextConc]_vars

(***************************************************************************)
(* Backend classification and the orchestrator (C1 - C5)                   *)
(***************************************************************************)
Classified == last.op \in {"detect_model_type", "get_ai_response"} /\ IsStr(last.model)

Probes == {i \in 1..Len(last.http) : last.http[i].method = "GET"}
Posts == {i \in 1..Len(last.http) : last.http[i].method = "POST"}

HasSlash(model) == \E i \in 1..Len(model) : model[i] = "/"
HasColon(model) == \E i \in 1..Len(model) : model[i] = ":"
HasHyphen(model) == \E i \in 1..Len(model) : model[i] = "-"
OnlyAlnum(model) == Len(model) > 0 /\ \A i \in 1..Len(model) : model[i] \in {"qwen", "GPT", "x9"}
StartsWithVendor(model) ==
    Len(model) >= 2 /\ model[1] \in {"qwen", "GPT"} /\ model[2] = "/"

\* C1: every model identifier containing '/' (so also every identifier that
\* begins with a vendor prefix, in any letter case) is classified lm_studio
\* and no health probe is issued.
C1_SlashIsLmStudio ==
    (Classified /\ (HasSlash(last.model) \/ StartsWithVendor(last.model)))
        => (last.type = "lm_studio" /\ Probes = {})

C1_Witness ==
    /\ last.op = "detect_model_type"
    /\ last.model = <<"/", ":">>
    /\ last.type = "lm_studio"

\* C2 as stated: every identifier that contains a colon, or a hyphen, or is
\* purely alphanumeric is classified ollama with no health probe.
C2_Original ==
    (Classified /\ (HasColon(last.model) \/ HasHyphen(last.model) \/ OnlyAlnum(last.model)))
        => (last.type = "ollama" /\ Probes = {})

\* C2 amended: every identifier without '/' that contains a colon, or a
\* hyphen, or is purely alphanumeric is classified ollama with no health probe.
C2_NoSlashIsOllama ==
    (/\ Classified
     /\ ~HasSlash(last.model)
     /\ (HasColon(last.model) \/ HasHyphen(last.model) \/ OnlyAlnum(last.model)))
        => (last.type = "ollama" /\ Probes = {})

C2_Witness ==
    /\ last.op = "detect_model_type"
    /\ last.model = <<"_", "-">>
    /\ last.type = "ollama"

Ambiguous ==
    /\ last.op = "detect_model_type"
    /\ ~HasSlash(last.model)
    /\ ~(HasColon(last.model) \/ HasHyphen(last.model) \/ OnlyAlnum(last.model))

IsProbe(call, url) == call.method = "GET" /\ call.url = url

\* C3 as stated: an identifier matched by neither rule causes exactly the two
\* probes, LM Studio then Ollama, and the result is the backend of the first
\* probe that succeeded, or unknown.
C3_Original ==
    Ambiguous =>
        /\ Len(last.http) = 2
        /\ IsProbe(last.http[1], LM_STUDIO_MODELS_URL)
        /\ IsProbe(last.http[2], OLLAMA_TAGS_URL)
        /\ last.type = IF last.http[1].outcome = "200" THEN "lm_studio"
                       ELSE IF last.http[2].outcome = "200" THEN "ollama"
                       ELSE "unknown"

\* C3 amended: an identifier matched by neither rule causes the LM Studio
\* probe and, only when that probe did not succeed, the Ollama probe after it
\* (one or two probes, nothing else); the result is the backend of the first
\* probe that succeeded, or unknown when both failed.
C3_ProbesInOrder ==
    Ambiguous =>
        /\ Len(last.http) \in {1, 2}
        /\ IsProbe(last.http[1], LM_STUDIO_MODELS_URL)
        /\ (Len(last.http) = 1) <=> (last.http[1].outcome = "200")
        /\ Len(last.http) = 2 => IsProbe(last.http[2], OLLAMA_TAGS_URL)
        /\ last.type = IF last.http[1].outcome = "200" THEN "lm_studio"
                       ELSE IF last.http[2].outcome = "200" THEN "ollama"
                       ELSE "unknown"

C3_Witness ==
    /\ Ambiguous
    /\ Len(last.http) = 2
    /\ last.http[1].outcome = "exception"
    /\ last.http[2].outcome = "200"
    /\ last.type = "ollama"

\* C4 as stated: get_ai_response on a model classified unknown performs no
\* HTTP call and returns the empty string.
C4_Original ==
    (last.op = "get_ai_response" /\ last.type = "unknown")
        => (last.http = <<>> /\ last.ret = <<>>)

\* C4 amended: get_ai_response on a model classified unknown sends no
\* generation request (no POST), its only HTTP calls being the two failed
\* health probes of the classification, and returns the empty string.
C4_UnknownNoPost ==
    (last.op = "get_ai_response" /\ last.type = "unknown")
        => /\ Posts = {}
           /\ Len(last.http) = 2
           /\ \A i \in 1..2 : last.http[i].method = "GET" /\ last.http[i].outcome # "200"
           /\ last.ret = <<>>
           /\ ~last.raised

C4_Witness ==
    /\ last.op = "get_ai_response"
    /\ last.type = "unknown"
    /\ last.model = <<"_">>
    /\ last.ret = <<>>

Blank(v) == v = Absent \/ (IsStr(v) /\ \A i \in 1..Len(v) : v[i] \in {" ", "\n"})

\* the backend answered 200 with a JSON object whose reply field is missing
\* or blank, read the way the adapter of last.type reads it
ReplyMissing ==
    /\ last.post.outcome = "ok"
    /\ last.post.body.top = "object"
    /\ \/ last.type = "ollama" /\ Blank(last.post.body.response)
       \/ /\ last.type = "lm_studio"
          /\ \/ last.post.body.choices = "absent"
             \/ last.post.body.choices = "elem_object" /\ last.post.body.message = "absent"
             \/ /\ last.post.body.choices = "elem_object"
                /\ last.post.body.message = "object"
                /\ Blank(last.post.body.content)

\* the backend did not answer with a usable payload: timeout, connection
\* failure, HTTP error status, undecodable body, or a decoded body of the
\* wrong shape (not an object, empty or ill-typed choices, non-string reply)
BackendFailed ==
    \/ last.post.outcome \in {"timeout", "connection_error", "http_error", "bad_json"}
    \/ /\ last.post.outcome = "ok"
       /\ \/ last.post.body.top # "object"
          \/ last.type = "ollama" /\ last.post.body.response = NonStr
          \/ /\ last.type = "lm_studio"
             /\ \/ last.post.body.choices \in {"nonlist", "empty", "elem_nonobject"}
                \/ last.post.body.choices = "elem_object" /\ last.post.body.message = "nonobject"
                \/ /\ last.post.body.choices = "elem_object"
                   /\ last.post.body.message = "object"
                   /\ last.post.body.content = NonStr

\* C5 as stated: no exception escapes get_ai_response, and for every backend
\* failure, missing or empty reply fields included, the result is the empty
\* string and log_error has recorded an error.
C5_Original ==
    last.op = "get_ai_response" =>
        /\ ~last.raised
        /\ (BackendFailed \/ ReplyMissing) => (last.ret = <<>> /\ last.errs # <<>>)

\* health probes of the latest call that raised (each logs one error)
RaisedProbes == Cardinality({i \in Probes : last.http[i].outcome = "exception"})

\* the errors the latest call passed to log_error are the tail of the error
\* log whenever the log file could be written
ErrorsLogged ==
    last.log_ok =>
        /\ Len(error_log) >= Len(last.errs)
        /\ SubSeq(error_log, Len(error_log) - Len(last.errs) + 1, Len(error_log)) = last.errs

\* C5 amended: no exception escapes get_ai_response and it returns a string;
\* on timeout, connection failure, HTTP error status, undecodable body or a
\* body of the wrong shape the string is empty and exactly one error is
\* logged for the failed exchange (beside one per health probe that raised),
\* appended to the error log whenever that file can be written; on a JSON
\* object whose reply field is missing or blank the string is empty, one
\* AI-exchange record is written and no error is logged for the exchange.
C5_NoEscape ==
    last.op = "get_ai_response" =>
        /\ ~last.raised
        /\ IsStr(last.ret)
        /\ ErrorsLogged
        /\ BackendFailed =>
              /\ last.ret = <<>>
              /\ Len(last.errs) = RaisedProbes + 1
              /\ last.ai = 0
        /\ ReplyMissing =>
              /\ last.ret = <<>>
              /\ Len(last.errs) = RaisedProbes
              /\ last.ai = 1

C5_Witness ==
    /\ last.op = "get_ai_response"
    /\ last.post.outcome = "http_error"
    /\ last.ret = <<>>
    /\ Len(error_log) = 1


(***************************************************************************)
(* The session (C6 - C10)                                                  *)
(***************************************************************************)
FailedTurn == last.op = "process_player_input" /\ last.ret = <<>>

\* C6 as stated: a turn whose get_ai_response returned the empty string
\* leaves the transcript unchanged and logs exactly one error.
C6_Original ==
    FailedTurn => (state.conversation = last.pre.conversation /\ Len(last.errs) = 1)

\* C6 amended: a turn whose get_ai_response returned the empty string leaves
\* the transcript unchanged; it logs one error for each health probe that
\* raised, plus one more unless the backend answered with a JSON object whose
\* reply field is missing or blank (so between none and three), and these
\* are the records appended to the error log when that file can be written.
C6_FailedTurn ==
    FailedTurn =>
        /\ state.conversation = last.pre.conversation
        /\ Len(last.errs) = RaisedProbes + (IF ReplyMissing THEN 0 ELSE 1)
        /\ Len(error_log) - last.log_before = IF last.log_ok THEN Len(last.errs) ELSE 0
        /\ ErrorsLogged

C6_Witness ==
    /\ FailedTurn
    /\ last.type = "unknown"
    /\ Len(error_log) - last.log_before = 2
    /\ state.conversation # <<>>
    /\ state.conversation = last.pre.conversation

SameSession(s, t) ==
    /\ s.conversation = t.conversation
    /\ s.character_name = t.character_name
    /\ s.selected_genre = t.selected_genre
    /\ s.selected_role = t.selected_role
    /\ s.current_model = t.current_model

\* C7: save_adventure directly followed by load_adventure restores the
\* conversation, character_name, selected_genre, selected_role and
\* current_model the session had before the save.
C7_Original ==
    (last.op = "load_adventure" /\ prev.op = "save_adventure")
        => SameSession(state, prev.pre)

\* C8: load_adventure with no file at the save path returns False, raises
\* nothing and leaves every field of the session state as it was.
C8_LoadMissing ==
    (last.op = "load_adventure" /\ save_file.kind = "missing")
        => (~last.ok /\ ~last.raised /\ state = last.pre)

C8_Witness ==
    /\ last.op = "load_adventure"
    /\ save_file.kind = "missing"
    /\ ~last.ok
    /\ state.adventure_started
    /\ state.last_player_input # <<>>

\* C9: whenever load_adventure returns False, whatever the save file holds,
\* every field of the session state is as it was before the call.
C9_Original ==
    (last.op = "load_adventure" /\ ~last.ok) => state = last.pre

\* C10: in every state with adventure_started = True the transcript is a
\* non-empty text holding at least one 'Dungeon Master:' turn.
C10_Original ==
    state.adventure_started =>
        /\ IsStr(state.conversation)
        /\ state.conversation # <<>>
        /\ \E i \in 1..Len(state.conversation) : state.conversation[i] = "Dungeon Master:"

(***************************************************************************)
(* Session invariants (C11, C12)                                           *)
(***************************************************************************)
IsPrefix(a, b) == Len(a) <= Len(b) /\ SubSeq(b, 1, Len(a)) = a

\* a load that ran to its end, or the reset made by start_new_adventure
ReplacesTranscript ==
    \/ last.op = "load_adventure" /\ last.ok
    \/ last.op = "start_new_adventure"

\* C11: every session step other than a load that performs its full
\* replacement or a new-adventure reset leaves the transcript as it was or as
\* it was with text appended: player turns, commands, saves and failed
\* operations never shorten or rewrite it.
C11_Original ==
    (last.op # "none" /\ ~ReplacesTranscript)
        => IsPrefix(last.pre.conversation, state.conversation)

\* C12: in every state with adventure_started = True, however reached,
\* current_model is a non-empty string.
C12_Original ==
    state.adventure_started => (IsStr(state.current_model) /\ state.current_model # <<>>)


(***************************************************************************)
(* The protocol adapters and the log channels (C13 - C15)                  *)
(***************************************************************************)
AdapterCall == last.op \in {"_get_ollama_response", "_get_lm_studio_response"}

\* C13: every call of a protocol adapter has passed one AI-exchange record to
\* log_ai_request by the time it ends, when it succeeds and also when it
\* fails by timeout, connection failure or HTTP error status.
C13_Original ==
    (/\ AdapterCall
     /\ \/ last.post.outcome \in {"timeout", "connection_error", "http_error"}
        \/ last.post.outcome = "ok" /\ ~last.raised)
        => last.ai = 1

\* the value written for a key of the latest block, Absent when the block has
\* no such line
Written(key) ==
    IF \E i \in 1..Len(last.written) : last.written[i].key = key
    THEN last.written[CHOOSE i \in 1..Len(last.written) : last.written[i].key = key].value
    ELSE Absent

\* the written value begins with the first n characters of the text, is longer
\* than that, and what follows names the text's total length
TruncatedTo(v, text, n) ==
    /\ Len(v) > n
    /\ SubSeq(v, 1, n) = SubSeq(text, 1, n)
    /\ \E i \in (n + 1)..Len(v) : v[i] = ToString(Len(text))

\* C14 as stated: the AI-exchange record contains the whole prompt, while
\* log_operation writes a string parameter longer than 200 characters as its
\* first 200 characters followed by an annotation giving the total length, and
\* a result longer than 500 characters as its first 500 characters.
C14_Original ==
    /\ (last.op = "log_ai_request" /\ last.log_ok)
          => \E i \in 1..Len(last.written) : Contains(last.written[i].value, last.input)
    /\ (last.op = "log_operation" /\ last.log_ok) =>
          /\ Len(last.input) > 200 => TruncatedTo(Written("text"), last.input, 200)
          /\ Len(last.result) > 500 => Written("Result") = SubSeq(last.result, 1, 500)

Unescape(c) == IF c = "\\n" THEN "\n" ELSE c

\* the text occurs whole in v once v's escapes are undone
ContainsEscaped(v, text) ==
    \E i \in 0..(Len(v) - Len(text)) : \A j \in 1..Len(text) : Unescape(v[i + j]) = text[j]

\* C14 amended: for every prompt length the AI-exchange record holds the whole
\* prompt and its length: verbatim for a request body with a 'prompt' field
\* (Ollama), and inside the repr of the 'messages' list, with newlines
\* escaped, for the chat request body; log_operation writes a string
\* parameter longer than 200 characters as its first 200 characters followed
\* by '...' and an annotation giving the total length, a shorter one whole, a
\* result longer than 500 characters as its first 500 characters followed by
\* '...', a shorter non-empty one whole, and no result line for an empty one.
C14_Truncation ==
    /\ (last.op = "log_ai_request" /\ last.log_ok) =>
          /\ Written("Prompt Length") = <<ToString(Len(last.input))>>
          /\ last.type = "ollama" => Written("prompt") = last.input
          /\ last.type = "lm_studio" =>
                /\ Written("messages") # Absent
                /\ ContainsEscaped(Written("messages"), last.input)
    /\ (last.op = "log_operation" /\ last.log_ok) =>
          /\ Len(last.input) > 200 =>
                /\ TruncatedTo(Written("text"), last.input, 200)
                /\ Len(Written("text")) = 204
                /\ Written("text")[201] = "..."
          /\ Len(last.input) <= 200 => Written("text") = last.input
          /\ Len(last.result) > 500 =>
                Written("Result") = SubSeq(last.result, 1, 500) \o <<"...">>
          /\ Len(last.result) \in 1..500 => Written("Result") = last.result
          /\ last.result = <<>> => Written("Result") = Absent

C14_Witness ==
    /\ last.op = "log_operation"
    /\ last.log_ok
    /\ Len(last.input) = 5000
    /\ Len(last.result) = 501
    /\ Len(Written("text")) = 204
    /\ Len(Written("Result")) = 501

LoggerCallMade == last.op \in {"log_error", "log_operation", "log_ai_request", "log_game_action"}

\* complete blocks on the channel of a logger method
Blocks(op, e, a, o, g) ==
    CASE op = "log_error" -> Len(e)
      [] op = "log_operation" -> o
      [] op = "log_ai_request" -> a
      [] op = "log_game_action" -> g
      [] OTHER -> 0

\* C15: each of log_error, log_operation, log_ai_request and log_game_action
\* returns normally whether or not its file can be opened and written; a
\* failed call leaves every channel as it was, and a successful call appends
\* its block to its own channel and leaves the others alone, whatever
\* failed before it.
C15_LoggerNeverRaises ==
    [][LoggerCallMade' =>
         /\ ~last'.raised
         /\ Blocks(last'.op, error_log', ai_log', op_log', game_log')
              = Blocks(last'.op, error_log, ai_log, op_log, game_log)
                  + (IF last'.log_ok THEN 1 ELSE 0)
         /\ Len(error_log') + ai_log' + op_log' + game_log'
              = Len(error_log) + ai_log + op_log + game_log + (IF last'.log_ok THEN 1 ELSE 0)
         /\ last'.log_ok => last'.written # <<>>]_vars

\* a block was appended by a call made after a call that failed
C15_Witness ==
    /\ LoggerCallMade
    /\ calls = 2
    /\ last.log_ok
    /\ ~last.raised
    /\ Len(error_log) + ai_log + op_log + game_log = 1

(***************************************************************************)
(* Starting, the main loop, saving (C16 - C18)                             *)
(***************************************************************************)
StartCall == last.op = "start_new_adventure"

\* C16: start_new_adventure returns True and sets adventure_started exactly
\* when the first get_ai_response reply is non-empty; on an empty first reply
\* it returns False, adventure_started stays False, run returns without
\* entering the input loop, and the transcript is the initial context alone,
\* with no text standing in for the reply.
C16_StartNeedsReply ==
    /\ pc = "loop" => state.adventure_started
    /\ StartCall =>
          /\ ~last.pre.adventure_started
          /\ last.ok <=> last.ret # <<>>
          /\ state.adventure_started <=> last.ret # <<>>
          /\ last.ret = <<>> =>
                /\ pc = "exit"
                /\ state.last_ai_reply = last.pre.last_ai_reply
                /\ state.conversation =
                     InitialContext(state.selected_genre, state.character_name,
                                    state.selected_role)
                /\ state.conversation[Len(state.conversation) - 1] = DM_MARKER
          /\ last.ret # <<>> =>
                state.conversation =
                  InitialContext(state.selected_genre, state.character_name,
                                 state.selected_role) \o last.ret

\* the backend answered with a blank reply: the start fails
C16_Witness ==
    /\ StartCall
    /\ last.post.outcome = "ok"
    /\ last.ret = <<>>
    /\ ~last.ok
    /\ ~state.adventure_started
    /\ pc = "exit"

\* a step of the main loop that handled one free-text input
TurnStep == pc = "loop" /\ calls' = calls + 1 /\ last'.op = "process_player_input"

\* C17: a player turn that fails (empty reply after a timeout, an unreachable
\* backend, an unknown model or a malformed payload, or an exception leaving
\* process_player_input) leaves the session in the main loop with
\* adventure_started True, ready for the next input; the loop is left only
\* by the /exit command, which changes nothing else.
C17_LoopSurvivesFailure ==
    [][/\ (TurnStep /\ (last'.ret = <<>> \/ last'.raised))
            => (pc' = "loop" /\ state'.adventure_started)
       /\ (pc = "loop" /\ pc' # "loop")
            => (pc' = "exit" /\ state' = state /\ last' = last /\ calls' = calls)]_vars

\* two failed turns in a row: the second input was accepted after the first
\* turn failed, and the loop is still running
C17_Witness ==
    /\ last.op = "process_player_input"
    /\ prev.op = "process_player_input"
    /\ last.ret = <<>>
    /\ last.post.outcome = "timeout"
    /\ state.conversation = prev.pre.conversation
    /\ state.adventure_started
    /\ pc = "loop"

\* the document json.dump writes for a session state
SavedDocument(s) ==
    FileObject(s.conversation, "object", s.character_name, s.selected_genre,
               s.selected_role, s.current_model)

\* C18: save_adventure, in any session state, returns True and leaves at the
\* save path one document holding the current conversation and the metadata
\* character_name, genre, role and model (with a save_time).
C18_Original ==
    last.op = "save_adventure" => (last.ok /\ save_file = SavedDocument(state))

(***************************************************************************)
(* Health probes and reply extraction (C19, C20)                           *)
(***************************************************************************)
\* C19: check_server never raises, and every call that returns False,
\* whether after a network error, a timeout or a status other than 200, has
\* passed to log_error one record naming the service.
C19_Original ==
    last.op = "check_server" =>
        /\ ~last.raised
        /\ ~last.ok =>
              /\ Len(last.errs) = 1
              /\ last.errs[1][1] = last.input[1]

\* the body arrived and was decoded to an object, and the reply field the
\* adapter reads is not there
LacksReplyField ==
    /\ last.post.outcome = "ok"
    /\ last.post.body.top = "object"
    /\ \/ last.op = "_get_ollama_response" /\ last.post.body.response = Absent
       \/ /\ last.op = "_get_lm_studio_response"
          /\ \/ last.post.body.choices \in {"absent", "empty"}
             \/ last.post.body.choices = "elem_object" /\ last.post.body.message = "absent"
             \/ /\ last.post.body.choices = "elem_object"
                /\ last.post.body.message = "object"
                /\ last.post.body.content = Absent

\* C20: for a received body without the expected reply field (no 'response'
\* for the Ollama adapter; no 'choices', an empty 'choices' list, no
\* 'message' or no 'content' for the chat adapter) the adapter returns the
\* empty string, hands the exchange to log_ai_request, raises nothing and
\* logs no error.
C20_Original ==
    LacksReplyField =>
        /\ last.ret = <<>>
        /\ last.ai = 1
        /\ ~last.raised
        /\ last.errs = <<>>

(***************************************************************************)
(* The adapter boundary (C21)                                              *)
(***************************************************************************)
\* C21 as stated: neither adapter ever raises: for every outcome of the POST
\* it returns a string, empty on failure.
C21_Original ==
    AdapterCall =>
        /\ ~last.raised
        /\ IsStr(last.ret)
        /\ BackendFailed => last.ret = <<>>

\* C21 amended: on a timeout or a connection failure the adapter logs the
\* failure and returns the empty string; on an HTTP error status, an
\* undecodable body or a decoded body of the wrong shape the exception leaves
\* the adapter (get_ai_response catches it), nothing having been logged by
\* the adapter; in every other case it returns a string and hands one
\* exchange to log_ai_request.
C21_AdapterBoundary ==
    AdapterCall =>
        /\ last.post.outcome \in {"timeout", "connection_error"}
              => (~last.raised /\ last.ret = <<>> /\ Len(last.errs) = 1 /\ last.ai = 0)
        /\ (BackendFailed /\ last.post.outcome \notin {"timeout", "connection_error"})
              => (last.raised /\ last.errs = <<>> /\ last.ai = 0)
        /\ ~BackendFailed
              => (~last.raised /\ IsStr(last.ret) /\ last.errs = <<>> /\ last.ai = 1)

C21_Witness ==
    /\ last.op = "_get_lm_studio_response"
    /\ last.post.outcome = "http_error"
    /\ last.raised
    /\ error_log = <<>>

(***************************************************************************)
(* Frames of a player turn and of a load (C22, C23, C26)                   *)
(***************************************************************************)
\* C22: in an active adventure, process_player_input with a non-empty reply
\* extends the transcript by a newline, 'Player: <input>', a newline and
\* 'Dungeon Master: <reply>', sets last_player_input to the input and
\* last_ai_reply to the reply, and leaves adventure_started True and every
\* other session field as it was.
C22_Original ==
    (last.op = "process_player_input" /\ last.ret # <<>>) =>
        /\ state.adventure_started
        /\ state = [last.pre EXCEPT
                      !.conversation = last.pre.conversation \o <<"\n", "Player: ">>
                                         \o last.input \o <<"\n", "Dungeon Master:", " ">>
                                         \o last.ret,
                      !.last_player_input = last.input,
                      !.last_ai_reply = last.ret]

\* positions of the marker in a transcript
MarkerAt(text) == {i \in 1..Len(text) : text[i] = "Dungeon Master:"}

\* C23: after every load_adventure that returns True the transcript and the
\* metadata fields are those of the save file (a missing metadata key giving
\* its default), and last_ai_reply is the trimmed text after the final
\* 'Dungeon Master:' of the loaded transcript, whatever it held before.
C23_Original ==
    (last.op = "load_adventure" /\ last.ok) =>
        /\ state.conversation = save_file.conversation
        /\ state.character_name = MetaGet(save_file.character_name, <<"defaults.character_name">>)
        /\ state.selected_genre = MetaGet(save_file.genre, <<"Fantasy">>)
        /\ state.selected_role = MetaGet(save_file.role, <<"Adventurer">>)
        /\ state.current_model = MetaGet(save_file.model, DEFAULT_MODEL)
        /\ \E i \in MarkerAt(state.conversation) :
              /\ \A j \in MarkerAt(state.conversation) : j <= i
              /\ state.last_ai_reply =
                   Strip(SubSeq(state.conversation, i + 1, Len(state.conversation)))

\* C26: after a turn whose reply is empty, last_player_input holds the input
\* of that turn, while conversation, last_ai_reply, adventure_started and the
\* character, genre, role and model fields are as before the turn.
C26_FailedTurnFrame ==
    FailedTurn => state = [last.pre EXCEPT !.last_player_input = last.input]

C26_Witness ==
    /\ FailedTurn
    /\ state.last_player_input = <<"go north">>
    /\ last.pre.last_player_input = <<"look around">>
    /\ state.conversation = last.pre.conversation
    /\ state.adventure_started

(***************************************************************************)
(* The channels as files (C24, C25)                                        *)
(***************************************************************************)
LoggerMethods == {"log_error", "log_operation", "log_ai_request", "log_game_action"}

\* the four paths of a constructed logger differ from one another
PathsDistinct ==
    last.op = "GameLogger" =>
        \A c, d \in {"error", "operation", "ai", "game"} :
            c # d => last.paths[c] # last.paths[d]

\* C24: each logging call appends at most one block to its own channel and
\* leaves the other three channels as they were; nothing written before is
\* ever truncated, rewritten or deleted; and for every configured error-log
\* path the four channel paths are pairwise distinct.
C24_ChannelsIndependent ==
    /\ []PathsDistinct
    /\ [][/\ IsPrefix(error_log, error_log')
          /\ ai_log' >= ai_log
          /\ op_log' >= op_log
          /\ game_log' >= game_log
          /\ LoggerCallMade' =>
                /\ Blocks(last'.op, error_log', ai_log', op_log', game_log')
                     - Blocks(last'.op, error_log, ai_log, op_log, game_log) \in {0, 1}
                /\ \A other \in LoggerMethods \ {last'.op} :
                      Blocks(other, error_log', ai_log', op_log', game_log')
                        = Blocks(other, error_log, ai_log, op_log, game_log)]_vars

\* two channels hold one block each
C24_Witness ==
    /\ LoggerCallMade
    /\ Len(error_log) = 1
    /\ ai_log = 1
    /\ op_log = 0
    /\ game_log = 0

\* the record a part of the file belongs to
RecordOf(piece) == <<piece[1], piece[2]>>

\* the parts of one record lie next to each other in the file
Contiguous ==
    \A i, k \in 1..Len(error_log) :
        (i < k /\ RecordOf(error_log[i]) = RecordOf(error_log[k])) =>
            \A j \in i..k : RecordOf(error_log[j]) = RecordOf(error_log[i])

\* the places of a part in the file
Places(piece) == {i \in 1..Len(error_log) : error_log[i] = piece}

\* every record of a returned call is in the file, each of its parts once
\* and in order
NoneLost ==
    \A p \in Processes :
        \A k \in 1..writers[p].done :
            \E n \in 1..MaxWrites :
                /\ \A d \in 1..n : Cardinality(Places(Piece(p, k, d, n))) = 1
                /\ \A d, e \in 1..n :
                      d < e => \A i \in Places(Piece(p, k, d, n)) :
                                  \A j \in Places(Piece(p, k, e, n)) : i < j

\* C25: when two processes log to the same channel path concurrently, every
\* record is in the file as one contiguous block from its start marker to its
\* end marker, never with another process's lines inside it, and no record
\* is lost.
C25_Original ==
    pc = "conc" => Contiguous /\ NoneLost

=============================================================================
